---- MODULE Spec2Model ----
(***************************************************************************)
(* Model of the VINDRIKTNING sensor node: main.py (Publisher and           *)
(* VindriktningReader) on top of homie.py (the Homie topic tree).          *)
(*                                                                         *)
(* The reader loop is single threaded.  One pass of the while loop of      *)
(* VindriktningReader.start is split at its scheduling point only: the     *)
(* loop-top test of the stop flag (LoopTop), and the body from uart.read() *)
(* to the end of the try block with its except and finally (Iterate).      *)
(* The environment (the bytes on the UART, the transport failing, the      *)
(* clock, a stop request) is drawn from the bounded sets defined below.    *)
(* Exceptions are results tagged with the name of the exception.           *)
(*                                                                         *)
(* Specifications:                                                         *)
(*   Spec           the reader loop with a running clock and a sensor that *)
(*                  stalls after MaxPending samples (idle timeouts);       *)
(*   SpecFill       the reader loop with a sensor that fills the buffer    *)
(*                  within one second (cycles of CYCLE_SAMPLES samples);   *)
(*   SpecPublisher  the Publisher called directly, its connect sequence    *)
(*                  failing at every possible point;                       *)
(*   SpecDecoder    __handle_sensor_data and __decode_sensor_data on       *)
(*                  buffers of up to MaxFrames frames;                     *)
(*   SpecTree       the Homie tree of homie.py called directly: state      *)
(*                  assignments, set_attribute, set_value and the parent   *)
(*                  setter on a tree of two devices;                       *)
(*   SpecLive       the reader loop kept running (fairness), its sensor    *)
(*                  stalling while the clock can still time the cycle out. *)
(*                                                                         *)
(* Python indexes from 0 and TLA+ sequences from 1: data[k] of the source  *)
(* is data[k + 1] here.                                                    *)
(***************************************************************************)
EXTENDS Integers, Sequences, FiniteSets, TLC

\* ------------------------------------------------------------------ bounds

\* The clock runs from 0 to MaxTime seconds.
MaxTime == 5

\* In the runs where the clock runs the sensor stalls once the cycle buffer
\* holds MaxPending samples.
MaxPending == 3

\* In the runs where the clock stands still the cycle buffer is not fed any
\* more once it holds MaxBuffer samples.
MaxBuffer == 8

\* A buffer handed to the decoder holds up to MaxFrames frames.
MaxFrames == 2

\* ------------------------------------------------------- program constants

\* main.py:67  __CYCLE_SAMPLES
CYCLE_SAMPLES == 7

\* main.py:70  __CYCLE_TIMEOUT
CYCLE_TIMEOUT == 4

\* main.py:130  the size of a frame of the sensor
FRAME_SIZE == 20

\* main.py:135  the frame type octet
FRAME_TYPE == 22

\* main.py:138  the data length octet
FRAME_DATA_LENGTH == 17

\* main.py:106  the largest reading that is buffered
MAX_PM2_5 == 1000

\* ------------------------------------------------------------- the decoder

\* A returned value, and a raised exception.
Ok(v) == [err |-> "none", value |-> v]

Raise(e) == [err |-> e, value |-> 0]

\* Mutant of IntDiv: the quotient rounded to the nearest integer.
IntDivRounded(a, b) == (2 * a + b) \div (2 * b)

\* int(a / b) of the source for a >= 0, b > 0: the float quotient truncated.
\* The quotient of two integers below 2^24 is exact enough in either float
\* width for the truncation to be the floor.
IntDiv(a, b) == a \div b

\* Mutant of DecodeFrames: a frame of the wrong type or length is skipped.
RECURSIVE DecodeFramesSkipping(_, _, _, _)
DecodeFramesSkipping(data, i, nframes, sum_values) ==
    IF i >= nframes
    THEN Ok(sum_values)
    ELSE LET offset == i * FRAME_SIZE
             valid == data[offset + 1] = FRAME_TYPE /\ data[offset + 2] = FRAME_DATA_LENGTH
             value == data[offset + 6] * 256 + data[offset + 7]
         IN  DecodeFramesSkipping(data, i + 1, nframes,
                                  IF valid THEN sum_values + value ELSE sum_values)

\* The for loop of __decode_sensor_data from frame i on, sum_values so far.
RECURSIVE DecodeFrames(_, _, _, _)
DecodeFrames(data, i, nframes, sum_values) ==
    IF i >= nframes
    THEN Ok(sum_values)
    ELSE LET offset == i * FRAME_SIZE
             frame_type == data[offset + 1]
             data_length == data[offset + 2]
             df3 == data[offset + 6]
             df4 == data[offset + 7]
             value == df3 * 256 + df4
         IN  IF frame_type # FRAME_TYPE
             THEN Raise("ValueError")
             ELSE IF data_length # FRAME_DATA_LENGTH
                  THEN Raise("ValueError")
                  ELSE DecodeFrames(data, i + 1, nframes, sum_values + value)

\* __decode_sensor_data: the truncated average of the frames' values.
decode_sensor_data(data) ==
    LET nframes == IntDiv(Len(data), FRAME_SIZE)
        summed == DecodeFrames(data, 0, nframes, 0)
    IN  IF summed.err # "none"
        THEN summed
        ELSE IF nframes = 0
             THEN Raise("ZeroDivisionError")
             ELSE Ok(IntDiv(summed.value, nframes))

\* --------------------------------------------------------- the Homie tree

\* Mutant of TopicName: the topic name is the thing's own id.
TopicNameFlat(parent, thing_id) == thing_id

\* A thing of the tree is the record of the fields HomieThing sets.
\* HomieThing.parent (setter): the topic name is derived when the parent is set.
TopicName(parent, thing_id) ==
    IF Len(parent) = 0
    THEN thing_id
    ELSE parent[1].topic_name \o "/" \o thing_id

\* HomieThing.__init__ (parent is <<>> for None, <<thing>> otherwise).
HomieThing(parent, thing_id) ==
    [thing_id |-> thing_id, topic_name |-> TopicName(parent, thing_id)]

\* A message as the broker receives it (always retained, qos 1).
Message(topic, payload) == [topic |-> topic, payload |-> payload]

\* HomieThing.set_attribute: the message it publishes.
set_attribute(thing, name, value) ==
    Message(thing.topic_name \o "/" \o name, value)

\* HomieThing.set_value: the message it publishes.
set_value(thing, value) == Message(thing.topic_name, value)

\* ",".join(map(str, things)): str of a thing is its id.
RECURSIVE JoinIds(_)
JoinIds(things) ==
    IF Len(things) = 0
    THEN ""
    ELSE IF Len(things) = 1
         THEN things[1].thing_id
         ELSE things[1].thing_id \o "," \o JoinIds(Tail(things))

\* Property.init: the messages it publishes, in order.
PropertyInit(property) ==
    << set_attribute(property, "$name", property.name),
       set_attribute(property, "$datatype", property.data_type),
       set_attribute(property, "$unit", property.unit),
       set_attribute(property, "$retained", "true"),
       set_attribute(property, "$settable", "false") >>

RECURSIVE PropertiesInit(_)
PropertiesInit(properties) ==
    IF Len(properties) = 0
    THEN << >>
    ELSE PropertyInit(properties[1]) \o PropertiesInit(Tail(properties))

\* Mutant of NodeInit: the properties are announced before the node itself.
NodeInitPropertiesFirst(node) ==
    PropertiesInit(node.properties)
    \o << set_attribute(node, "$name", node.name),
          set_attribute(node, "$type", node.thing_type),
          set_attribute(node, "$properties", JoinIds(node.properties)) >>

\* Node.init: the messages it publishes, in order.
NodeInit(node) ==
    << set_attribute(node, "$name", node.name),
       set_attribute(node, "$type", node.thing_type),
       set_attribute(node, "$properties", JoinIds(node.properties)) >>
    \o PropertiesInit(node.properties)

RECURSIVE NodesInit(_)
NodesInit(nodes) ==
    IF Len(nodes) = 0
    THEN << >>
    ELSE NodeInit(nodes[1]) \o NodesInit(Tail(nodes))

\* class DeviceState
DeviceState_INIT == "init"

DeviceState_READY == "ready"

DeviceState_DISCONNECTED == "disconnected"

DeviceState_SLEEPING == "sleeping"

DeviceState_LOST == "lost"

DeviceState_ALERT == "alert"

DeviceStates ==
    { DeviceState_INIT, DeviceState_READY, DeviceState_DISCONNECTED,
      DeviceState_SLEEPING, DeviceState_LOST, DeviceState_ALERT }

\* Device.init: the messages it publishes, in order.
DeviceInit(device) ==
    << set_attribute(device, "$state", DeviceState_INIT),
       set_attribute(device, "$homie", "3.0.0"),
       set_attribute(device, "$name", device.name),
       set_attribute(device, "$nodes", JoinIds(device.nodes)),
       set_attribute(device, "$extensions", "") >>
    \o NodesInit(device.nodes)

\* Mutant of DeviceSetState: a state other than INIT is published as requested.
DeviceSetStateRequested(device, new_state) ==
    IF new_state = DeviceState_INIT
    THEN DeviceInit(device)
    ELSE << set_attribute(device, "$state", new_state) >>

\* Device.state (setter): the messages an assignment of new_state publishes.
DeviceSetState(device, new_state) ==
    IF new_state = DeviceState_INIT
    THEN DeviceInit(device)
    ELSE << set_attribute(device, "$state", DeviceState_READY) >>

\* Property.__init__
Property(parent, thing_id, name, data_type, unit) ==
    [thing_id |-> thing_id, name |-> name, topic_name |-> TopicName(parent, thing_id),
     data_type |-> data_type, unit |-> unit]

\* Node.__init__ and add_property: the node with its properties attached.
Node(parent, thing_id, name, thing_type, properties) ==
    [thing_id |-> thing_id, name |-> name, topic_name |-> TopicName(parent, thing_id),
     thing_type |-> thing_type, properties |-> properties]

\* Device.__init__ and add_node: the device with its nodes attached.
Device(parent, thing_id, name, nodes) ==
    [thing_id |-> thing_id, name |-> name, topic_name |-> TopicName(parent, thing_id),
     nodes |-> nodes]

\* Network.__init__ once the broker is connected: the root of the tree.
Network == HomieThing(<< >>, "homie")

\* A tree with two devices, two nodes and three properties, as a caller of
\* homie.py builds it top down: every thing is constructed under its parent
\* and then added to it (the second device is left empty).
TreeDevice ==
    LET device0 == Device(<<Network>>, "dev", "Dev", << >>)
        node0 == Node(<<device0>>, "node", "Node", "Sensor", << >>)
        node20 == Node(<<device0>>, "node2", "Node 2", "Actuator", << >>)
        prop == Property(<<node0>>, "prop", "Prop", "float", "ug/m3")
        prop2 == Property(<<node0>>, "prop2", "Prop 2", "integer", "%")
        prop3 == Property(<<node20>>, "prop3", "Prop 3", "boolean", "")
    IN  [device0 EXCEPT !.nodes = << [node0 EXCEPT !.properties = <<prop, prop2>>],
                                    [node20 EXCEPT !.properties = <<prop3>>] >>]

TreeDevice2 == Device(<<Network>>, "dev2", "Dev 2", << >>)

\* The ids of the things of that tree.
TreeIds == {"homie", "dev", "dev2", "node", "node2", "prop", "prop2", "prop3"}

\* What HomieThing.__init__ left in each thing of that tree: its parent
\* (<< >> for None) and the topic name derived from it (homie.py:32-33).
ConstructedThings ==
    LET node == TreeDevice.nodes[1]
        node2 == TreeDevice.nodes[2]
    IN  [id \in TreeIds |->
            CASE id = "homie" -> [parent |-> << >>, topic_name |-> Network.topic_name]
              [] id = "dev" -> [parent |-> <<"homie">>, topic_name |-> TreeDevice.topic_name]
              [] id = "dev2" -> [parent |-> <<"homie">>, topic_name |-> TreeDevice2.topic_name]
              [] id = "node" -> [parent |-> <<"dev">>, topic_name |-> node.topic_name]
              [] id = "node2" -> [parent |-> <<"dev">>, topic_name |-> node2.topic_name]
              [] id = "prop" -> [parent |-> <<"node">>,
                                 topic_name |-> node.properties[1].topic_name]
              [] id = "prop2" -> [parent |-> <<"node">>,
                                  topic_name |-> node.properties[2].topic_name]
              [] id = "prop3" -> [parent |-> <<"node2">>,
                                  topic_name |-> node2.properties[1].topic_name]]

\* The first device of the tree with the topic name each thing holds now.
CurrentDevice(t) ==
    [TreeDevice EXCEPT
        !.topic_name = t[TreeDevice.thing_id].topic_name,
        !.nodes = [i \in DOMAIN TreeDevice.nodes |->
            [TreeDevice.nodes[i] EXCEPT
                !.topic_name = t[TreeDevice.nodes[i].thing_id].topic_name,
                !.properties = [j \in DOMAIN TreeDevice.nodes[i].properties |->
                    [TreeDevice.nodes[i].properties[j] EXCEPT
                        !.topic_name
                            = t[TreeDevice.nodes[i].properties[j].thing_id].topic_name]]]]]

\* HomieThing.parent (setter): the thing is given a parent and derives its own
\* topic name from the parent's; nothing else is touched.
SetParent(t, thing_id, parent_id) ==
    [t EXCEPT ![thing_id] = [parent |-> <<parent_id>>,
                             topic_name |-> TopicName(<<t[parent_id]>>, thing_id)]]

\* ------------------------------------------------------------ the Publisher

\* system.device_id: the SSID of the access point.
DeviceId == "VINDWIFING"

\* str.lower() on the device id.
Lower(id) == IF id = "VINDWIFING" THEN "vindwifing" ELSE id

\* The tree Publisher.__connect builds (main.py:37-42).
TheDevice ==
    LET device0 == Device(<<Network>>, Lower(DeviceId), DeviceId, << >>)
        node0 == Node(<<device0>>, "pm1006", "Cubic PM1006", "Air Quality Sensor", << >>)
        property == Property(<<node0>>, "pm2_5",
                             "Particulate Matter Concentration (PM2.5)", "float", "ug/m3")
        node == [node0 EXCEPT !.properties = <<property>>]
    IN  [device0 EXCEPT !.nodes = <<node>>]

TheProperty == TheDevice.nodes[1].properties[1]

\* The messages of device.state = INIT followed by device.state = READY.
InitMessages == DeviceSetState(TheDevice, DeviceState_INIT)

ReadyMessages == DeviceSetState(TheDevice, DeviceState_READY)

ConnectMessages == InitMessages \o ReadyMessages

\* The transport fails at operation fail_at of a connect sequence: 0 is
\* MQTTClient.connect, k >= 1 the k-th publish; NoFailure fails nowhere.
NoFailure == Len(ConnectMessages) + 1

AllFailPoints == 0 .. NoFailure

\* The first n elements of a sequence.
Take(seq, n) == SubSeq(seq, 1, n)

\* Where the property reference is assigned in __connect: main.py:40, right
\* after the tree is built and before anything is published.
ConnectProperty(fail_at) == IF fail_at = 0 THEN << >> ELSE <<TheProperty>>

\* Device.__state after the connect sequence: assigned after the messages
\* of each state assignment went out (homie.py:141).
ConnectDeviceState(fail_at) ==
    IF fail_at <= Len(InitMessages)
    THEN << >>
    ELSE IF fail_at <= Len(ConnectMessages)
         THEN <<DeviceState_INIT>>
         ELSE <<DeviceState_READY>>

\* Publisher.__connect: the publisher's fields after it, what reached the
\* broker, and whether it raised ConnectionError.
connect(fail_at) ==
    [property |-> ConnectProperty(fail_at),
     device_state |-> ConnectDeviceState(fail_at),
     wire |-> IF fail_at = 0 THEN << >> ELSE Take(ConnectMessages, fail_at - 1),
     raised |-> fail_at < NoFailure]

\* What one call of Publisher.publish did.
NoCall ==
    [calls |-> 0, after |-> "skipped", connects |-> 0, set_value |-> "skipped",
     raised |-> FALSE]

\* Mutant of publish: a call that had to reconnect returns after the connect
\* sequence and leaves the value to the next call.
publishReconnectOnly(pub, message, fail_at, value_fails) ==
    LET reconnect == Len(pub.property) = 0
        c == connect(fail_at)
        calls_set_value == ~reconnect
        sent == calls_set_value /\ ~value_fails
    IN  [property |-> IF reconnect THEN c.property ELSE pub.property,
         device_state |-> IF reconnect THEN c.device_state ELSE pub.device_state,
         wire |-> IF reconnect THEN c.wire ELSE pub.wire,
         value_out |-> IF sent THEN <<set_value(pub.property[1], message)>> ELSE << >>,
         call |-> [calls |-> 1,
                   after |-> pub.last_set_value,
                   connects |-> IF reconnect THEN 1 ELSE 0,
                   set_value |-> IF ~calls_set_value THEN "skipped"
                                 ELSE IF value_fails THEN "failed" ELSE "ok",
                   raised |-> calls_set_value /\ value_fails]]

\* Publisher.publish(message) on the publisher fields pub.  A connect sequence
\* run by the call fails at fail_at; the set_value publish fails iff
\* value_fails.  Returns the fields after the call and what the call did
\* (after: how set_value ended in the call before it).
publish(pub, message, fail_at, value_fails) ==
    LET reconnect == Len(pub.property) = 0
        c == connect(fail_at)
        property == IF reconnect THEN c.property ELSE pub.property
        device_state == IF reconnect THEN c.device_state ELSE pub.device_state
        wire == IF reconnect THEN c.wire ELSE pub.wire
        calls_set_value == Len(property) > 0
        sent == calls_set_value /\ ~value_fails
    IN  [property |-> property,
         device_state |-> device_state,
         wire |-> wire,
         value_out |-> IF sent THEN <<set_value(property[1], message)>> ELSE << >>,
         call |-> [calls |-> 1,
                   after |-> pub.last_set_value,
                   connects |-> IF reconnect THEN 1 ELSE 0,
                   set_value |-> IF ~calls_set_value THEN "skipped"
                                 ELSE IF value_fails THEN "failed" ELSE "ok",
                   raised |-> calls_set_value /\ value_fails]]

\* --------------------------------------------------------------- the reader

\* round(value_sum / nsamples, 1) in tenths: the nearest tenth, an exact half
\* going to the even one (what round() does on the quarters a float holds
\* exactly, the only halves an average of integers has).
Round1(value_sum, nsamples) ==
    LET scaled == 10 * value_sum
        q == scaled \div nsamples
        r == scaled % nsamples
    IN  IF 2 * r < nsamples THEN q
        ELSE IF 2 * r > nsamples THEN q + 1
        ELSE IF q % 2 = 0 THEN q ELSE q + 1

\* str() of a float with one decimal, given in tenths.
StrTenths(tenths) == ToString(tenths \div 10) \o "." \o ToString(tenths % 10)

\* The for loop summing the samples of the buffer (main.py:159-161).
RECURSIVE ValueSum(_)
ValueSum(buf) ==
    IF Len(buf) = 0 THEN 0 ELSE buf[1].pm2_5 + ValueSum(Tail(buf))

\* Mutant of InRange: the upper end of the range off by one.
InRangeOffByOne(value) == value >= 0 /\ value <= MAX_PM2_5 + 1

\* The range test of __handle_sensor_data (main.py:106).
InRange(value) == value >= 0 /\ value <= MAX_PM2_5

\* __handle_sensor_data: the buffer after it and the exception it lets out.
handle_sensor_data(buf, data, timestamp) ==
    LET decoded == decode_sensor_data(data)
        sample == [timestamp |-> timestamp, pm2_5 |-> decoded.value]
    IN  [buffer |-> IF decoded.err = "none" /\ InRange(decoded.value)
                    THEN Append(buf, sample)
                    ELSE buf,
         decoded |-> decoded,
         raised |-> IF decoded.err = "ValueError" THEN "none" ELSE decoded.err]

\* Mutant of TimedOut: a cycle idle for exactly CYCLE_TIMEOUT has timed out.
TimedOutInclusive(buf, current_time) ==
    (current_time - buf[Len(buf)].timestamp) >= CYCLE_TIMEOUT

\* The cycle-ended test of __publish_if_cycle_ended (main.py:153-158).
TimedOut(buf, current_time) ==
    (current_time - buf[Len(buf)].timestamp) > CYCLE_TIMEOUT

CycleEnded(buf, current_time) ==
    /\ Len(buf) > 0
    /\ (Len(buf) >= CYCLE_SAMPLES \/ TimedOut(buf, current_time))

\* The message __publish_if_cycle_ended hands to the publisher (main.py:162,165).
CycleMessage(buf) == StrTenths(Round1(ValueSum(buf), Len(buf)))

\* The buffer after __publish_if_cycle_ended called the publisher: cleared,
\* unless publish raised and buffer.clear() (main.py:166) was not reached.
BufferAfterPublish(buf, raised) == IF raised THEN buf ELSE << >>

\* __publish_if_cycle_ended: the buffer and the publisher after it.
publish_if_cycle_ended(buf, pub, current_time, fail_at, value_fails) ==
    IF CycleEnded(buf, current_time)
    THEN LET p == publish(pub, CycleMessage(buf), fail_at, value_fails)
         IN  [buffer |-> BufferAfterPublish(buf, p.call.raised),
              pub |-> p,
              flush_due |-> TRUE,
              message |-> <<CycleMessage(buf)>>,
              raised |-> IF p.call.raised THEN "ConnectionError" ELSE "none"]
    ELSE [buffer |-> buf,
          pub |-> pub @@ [value_out |-> << >>, call |-> NoCall],
          flush_due |-> FALSE,
          message |-> << >>,
          raised |-> "none"]

\* ---------------------------------------------------------- the environment

\* A frame of the sensor: type, length, command, DF1..DF16 and checksum, all
\* zero but the octets the decoder reads (the checksum is never verified).
Frame(frame_type, data_length, df3, df4) ==
    [k \in 1 .. FRAME_SIZE |->
        CASE k = 1 -> frame_type
          [] k = 2 -> data_length
          [] k = 3 -> 11
          [] k = 6 -> df3
          [] k = 7 -> df4
          [] OTHER -> 0]

\* A well-formed frame reporting value (0 .. 65535).
GoodFrame(value) == Frame(FRAME_TYPE, FRAME_DATA_LENGTH, value \div 256, value % 256)

\* What uart.read() returns in the runs of the reader loop: nothing, a frame
\* with a reading at each end of the range, one past the range, a frame of the
\* wrong type, and less than a frame.
UartReads ==
    { << >>,
      GoodFrame(0),
      GoodFrame(MAX_PM2_5),
      GoodFrame(MAX_PM2_5 + 1),
      Frame(FRAME_TYPE + 1, FRAME_DATA_LENGTH, 0, 25),
      Take(GoodFrame(25), 5) }

\* Where a connect sequence fails in the runs of the reader loop: at the
\* broker connect, at the READY publish, nowhere.
FailPoints == {0, Len(ConnectMessages), NoFailure}

\* ------------------------------------------------------------------- state

VARIABLES
    stop_requested,   \* VindriktningReader.__stop_requested
    uart_open,        \* FALSE once stop() called uart.deinit()
    buffer,           \* VindriktningReader.__buffer
    pc,               \* where the loop of start() is: "top", "body", "stopped"
    now,              \* the clock, in seconds
    property,         \* Publisher.__property: << >> is None
    device_state,     \* Device.__state of the tree last built: << >> is unset
    wire,             \* what the broker received over the MQTT client last built
    last_connect,     \* where the last connect sequence failed (NoFailure: nowhere)
    last_set_value,   \* how set_value ended in the last call of Publisher.publish
    cycle_calls,      \* calls of Publisher.publish since the buffer was last empty
    tree_calls,       \* publishing calls made directly on the things of the tree
    things,           \* HomieThing.__parent and __topic_name of each thing of the tree
    rx,               \* the bytes last handed to the decoder or read from the UART
    last              \* what the last pass of the loop (or call) did

vars == << stop_requested, uart_open, buffer, pc, now, property, device_state,
           wire, last_connect, last_set_value, cycle_calls, tree_calls, things,
           rx, last >>

\* cycle_calls counts up to MaxCalls.
MaxCalls == 2

\* The record of a pass of the loop that did nothing.
NoPass ==
    [decoded |-> Raise("skipped"), flush_checks |-> 0, checked |-> << >>,
     flush_due |-> FALSE, message |-> << >>, value_out |-> << >>, call |-> NoCall,
     raised |-> "none"]

\* The fields of the publisher, as publish() takes them.
Pub ==
    [property |-> property, device_state |-> device_state, wire |-> wire,
     last_set_value |-> last_set_value]

\* Publisher.__init__ runs the connect sequence once and swallows its
\* ConnectionError; VindriktningReader.__init__ starts with an empty buffer.
InitWith(fails, inputs) ==
    /\ stop_requested = FALSE
    /\ uart_open = TRUE
    /\ buffer = << >>
    /\ pc = "top"
    /\ now = 0
    /\ \E fail_at \in fails :
          /\ property = connect(fail_at).property
          /\ device_state = connect(fail_at).device_state
          /\ wire = connect(fail_at).wire
          /\ last_connect = fail_at
    /\ last_set_value = "skipped"
    /\ cycle_calls = 0
    /\ tree_calls = 0
    /\ things = ConstructedThings
    /\ rx \in inputs
    /\ last = NoPass

Init == InitWith(FailPoints, { << >> })

\* Mutant of LoopTop: the stop flag is not looked at.
LoopTopIgnoringStop ==
    /\ pc = "top"
    /\ pc' = "body"
    /\ UNCHANGED << stop_requested, uart_open, buffer, now, property, device_state,
                    wire, last_connect, last_set_value, cycle_calls, tree_calls, things,
                    rx, last >>

\* while not self.__stop_requested (main.py:88)
LoopTop ==
    /\ pc = "top"
    /\ pc' = IF stop_requested THEN "stopped" ELSE "body"
    /\ UNCHANGED << stop_requested, uart_open, buffer, now, property, device_state,
                    wire, last_connect, last_set_value, cycle_calls, tree_calls, things, rx, last >>

\* stop() (main.py:169-172), called from outside the loop.
Stop ==
    /\ ~stop_requested
    /\ stop_requested' = TRUE
    /\ uart_open' = FALSE
    /\ UNCHANGED << buffer, pc, now, property, device_state, wire, last_connect,
                    last_set_value, cycle_calls, tree_calls, things, rx, last >>

\* What a call of Publisher.publish (or none) leaves in the publisher's state.
Published(p, fail_at) ==
    /\ property' = p.property
    /\ device_state' = p.device_state
    /\ wire' = p.wire
    /\ last_connect' = IF p.call.connects > 0 THEN fail_at ELSE last_connect
    /\ last_set_value' = IF p.call.calls > 0 THEN p.call.set_value ELSE last_set_value

\* Mutant of AfterPass: only the errors of the decoder and the publisher named
\* in the source are caught.
AfterPassUncaught(raised) ==
    IF raised \in {"none", "ValueError", "ConnectionError"} THEN "top" ELSE "stopped"

\* Where the loop goes after a pass that let out the exception raised ("none"
\* for none): except Exception catches it, finally sleeps, and the while
\* condition is tested again (main.py:94-97).
AfterPass(raised) == "top"

\* The body of the loop (main.py:89-97): read, handle, flush check, sleep.
\* Both readings of the clock in a pass fall in the same second.  A read on
\* the UART stop() released returns nothing or raises.
Iterate(reads, fails, max_buffer) ==
    /\ pc = "body"
    /\ \E data \in reads, read_fails \in BOOLEAN :
          /\ Len(data) > 0 => (uart_open /\ Len(buffer) < max_buffer)
          /\ read_fails => ~uart_open
          /\ LET handled ==
                     IF read_fails
                     THEN [buffer |-> buffer, decoded |-> Raise("skipped"), raised |-> "OSError"]
                     ELSE IF Len(data) = 0
                          THEN [buffer |-> buffer, decoded |-> Raise("skipped"), raised |-> "none"]
                          ELSE handle_sensor_data(buffer, data, now)
                 checked == handled.raised = "none"
                 due == checked /\ CycleEnded(handled.buffer, now)
             IN  \E fail_at \in (IF due /\ Len(property) = 0 THEN fails ELSE {NoFailure}),
                    value_fails \in (IF due THEN BOOLEAN ELSE {FALSE}) :
                    LET flushed ==
                            IF checked
                            THEN publish_if_cycle_ended(handled.buffer, Pub, now,
                                                        fail_at, value_fails)
                            ELSE [buffer |-> handled.buffer,
                                  pub |-> Pub @@ [value_out |-> << >>, call |-> NoCall],
                                  flush_due |-> FALSE,
                                  message |-> << >>,
                                  raised |-> handled.raised]
                        fresh == Len(buffer) = 0 /\ Len(handled.buffer) > 0
                        before == IF fresh THEN 0 ELSE cycle_calls
                    IN  /\ buffer' = flushed.buffer
                        /\ Published(flushed.pub, fail_at)
                        /\ cycle_calls' = IF flushed.pub.call.calls > 0 /\ before < MaxCalls
                                          THEN before + 1 ELSE before
                        /\ rx' = data
                        /\ pc' = AfterPass(flushed.raised)
                        /\ last' = [decoded |-> handled.decoded,
                                    flush_checks |-> IF checked THEN 1 ELSE 0,
                                    checked |-> IF checked THEN handled.buffer ELSE << >>,
                                    flush_due |-> flushed.flush_due,
                                    message |-> flushed.message,
                                    value_out |-> flushed.pub.value_out,
                                    call |-> flushed.pub.call,
                                    raised |-> flushed.raised]
    /\ UNCHANGED << stop_requested, uart_open, now, tree_calls, things >>

\* A second passes on the clock.
Tick(max_time) ==
    /\ pc # "stopped"
    /\ now < max_time
    /\ now' = now + 1
    /\ UNCHANGED << stop_requested, uart_open, buffer, pc, property, device_state,
                    wire, last_connect, last_set_value, cycle_calls, tree_calls, things, rx, last >>

\* The reader loop with a running clock and a sensor that stalls.
Next == LoopTop \/ Iterate(UartReads, FailPoints, MaxPending) \/ Stop \/ Tick(MaxTime)

Spec == Init /\ [][Next]_vars

\* The reader loop with a sensor that keeps sending within one second.
NextFill == LoopTop \/ Iterate(UartReads, FailPoints, MaxBuffer) \/ Stop

SpecFill == Init /\ [][NextFill]_vars

\* The reader loop kept running, with a clock that advances and a sensor that
\* stalls for good while the clock can still run CYCLE_TIMEOUT seconds past
\* the last sample.  The loop is a sequential program whose only suspension
\* is the sleep that ends each pass: the loop-top test is taken when it is
\* due, a pass that was begun ends (the body is enabled whenever pc = "body"
\* and is the only step that leaves it, so this is its weak fairness, stated
\* on the program counter), and the clock ticks.  Whether the transport fails
\* and whether stop() is called is left to the environment.
StallTime == MaxTime - CYCLE_TIMEOUT - 1

IterateLive ==
    Iterate(IF now <= StallTime THEN UartReads ELSE { << >> }, FailPoints, MaxPending)

NextLive == LoopTop \/ IterateLive \/ Stop \/ Tick(MaxTime)

SpecLive ==
    /\ Init
    /\ [][NextLive]_vars
    /\ WF_vars(LoopTop)
    /\ []<>(pc # "body")
    /\ WF_vars(Tick(MaxTime))

\* ----------------------------------------------------- the publisher alone

\* The messages a caller hands to Publisher.publish.
Messages == {"0.0", "142.9"}

\* One call of Publisher.publish (main.py:49-60) by any caller.
PublishCall(messages, fails) ==
    /\ pc = "top"
    /\ \E message \in messages,
          fail_at \in (IF Len(property) = 0 THEN fails ELSE {NoFailure}),
          value_fails \in BOOLEAN :
          LET p == publish(Pub, message, fail_at, value_fails)
          IN  /\ Published(p, fail_at)
              /\ last' = [NoPass EXCEPT !.message = <<message>>,
                                        !.value_out = p.value_out,
                                        !.call = p.call,
                                        !.raised = IF p.call.raised
                                                   THEN "ConnectionError" ELSE "none"]
    /\ UNCHANGED << stop_requested, uart_open, buffer, pc, now, cycle_calls, tree_calls, things, rx >>

NextPublisher == PublishCall(Messages, AllFailPoints)

SpecPublisher == InitWith(AllFailPoints, { << >> }) /\ [][NextPublisher]_vars

\* ------------------------------------------------------- the decoder alone

\* The frames the decoder is tried on: right and wrong type and length, and
\* readings whose averages do and do not divide.
DecoderFrames ==
    { Frame(t, l, v[1], v[2]) :
        t \in {FRAME_TYPE, FRAME_TYPE + 1},
        l \in {FRAME_DATA_LENGTH, FRAME_DATA_LENGTH - 1},
        v \in { <<0, 0>>, <<0, 25>>, <<0, 36>>, <<3, 232>>, <<255, 255>> } }

\* The bytes of a frame not yet complete that may follow the last frame.
DecoderTrailing == { Take(GoodFrame(65535), n) : n \in {0, 7, FRAME_SIZE - 1} }

\* All buffers of exactly n of the frames.
RECURSIVE FrameSeqs(_)
FrameSeqs(n) ==
    IF n = 0
    THEN { << >> }
    ELSE { head \o frame : head \in FrameSeqs(n - 1), frame \in DecoderFrames }

DecoderInputs ==
    { frames \o trailing :
        frames \in UNION { FrameSeqs(n) : n \in 0 .. MaxFrames },
        trailing \in DecoderTrailing }

\* One call of __handle_sensor_data (main.py:101-114), and through it of
\* __decode_sensor_data (main.py:117-145), on the bytes in rx.
Decode ==
    /\ pc = "top"
    /\ last.decoded.err = "skipped"
    /\ LET handled == handle_sensor_data(buffer, rx, now)
       IN  /\ buffer' = handled.buffer
           /\ last' = [NoPass EXCEPT !.decoded = handled.decoded,
                                     !.raised = handled.raised]
    /\ UNCHANGED << stop_requested, uart_open, pc, now, property, device_state,
                    wire, last_connect, last_set_value, cycle_calls, tree_calls, things, rx >>

NextDecoder == Decode

SpecDecoder == InitWith({NoFailure}, DecoderInputs) /\ [][NextDecoder]_vars

\* ------------------------------------------------------- the Homie tree alone

\* A caller makes up to MaxTreeCalls publishing calls on the tree.
MaxTreeCalls == 2

\* The attribute and the values a caller publishes on a thing.
TreeAttributes == {"$x"}

TreeValues == {"1.5"}

\* The parents a caller moves a thing to (and back).
TreeMoves == { <<"node", "dev2">>, <<"node", "dev">> }

\* The tree as constructed, over a connected broker, no state assigned yet.
InitTree ==
    /\ stop_requested = FALSE
    /\ uart_open = TRUE
    /\ buffer = << >>
    /\ pc = "top"
    /\ now = 0
    /\ property = << >>
    /\ device_state = << >>
    /\ wire = << >>
    /\ last_connect = NoFailure
    /\ last_set_value = "skipped"
    /\ cycle_calls = 0
    /\ tree_calls = 0
    /\ things = ConstructedThings
    /\ rx = << >>
    /\ last = NoPass

\* device.state = new_state (homie.py:135-141) on the first device; the
\* transport fails at publish fail_at of the assignment, or nowhere.
TreeSetState(states, max_calls) ==
    /\ tree_calls < max_calls
    /\ \E new_state \in states :
          LET messages == DeviceSetState(CurrentDevice(things), new_state)
          IN  \E fail_at \in 1 .. Len(messages) + 1 :
                 LET failed == fail_at <= Len(messages)
                     out == Take(messages, fail_at - 1)
                 IN  /\ wire' = wire \o out
                     /\ device_state' = IF failed THEN device_state ELSE <<new_state>>
                     /\ last' = [NoPass EXCEPT !.message = <<"state", new_state>>,
                                               !.value_out = out,
                                               !.raised = IF failed THEN "OSError"
                                                          ELSE "none"]
    /\ tree_calls' = tree_calls + 1
    /\ UNCHANGED << stop_requested, uart_open, buffer, pc, now, property, last_connect,
                    last_set_value, cycle_calls, things, rx >>

\* thing.set_attribute(name, value) (homie.py:35-38) on any thing of the tree.
TreeSetAttribute(names, values, max_calls) ==
    /\ tree_calls < max_calls
    /\ \E thing_id \in TreeIds, name \in names, value \in values :
          LET out == << set_attribute(things[thing_id], name, value) >>
          IN  /\ wire' = wire \o out
              /\ last' = [NoPass EXCEPT
                              !.message = <<"set_attribute", thing_id, name, value>>,
                              !.value_out = out]
    /\ tree_calls' = tree_calls + 1
    /\ UNCHANGED << stop_requested, uart_open, buffer, pc, now, property, device_state,
                    last_connect, last_set_value, cycle_calls, things, rx >>

\* thing.set_value(value) (homie.py:40-42) on any thing of the tree.
TreeSetValue(values, max_calls) ==
    /\ tree_calls < max_calls
    /\ \E thing_id \in TreeIds, value \in values :
          LET out == << set_value(things[thing_id], value) >>
          IN  /\ wire' = wire \o out
              /\ last' = [NoPass EXCEPT !.message = <<"set_value", thing_id, value>>,
                                        !.value_out = out]
    /\ tree_calls' = tree_calls + 1
    /\ UNCHANGED << stop_requested, uart_open, buffer, pc, now, property, device_state,
                    last_connect, last_set_value, cycle_calls, things, rx >>

\* thing.parent = parent (homie.py:30-33).
TreeSetParent(moves) ==
    /\ \E move \in moves : things' = SetParent(things, move[1], move[2])
    /\ UNCHANGED << stop_requested, uart_open, buffer, pc, now, property, device_state,
                    wire, last_connect, last_set_value, cycle_calls, tree_calls, rx,
                    last >>

NextTree ==
    \/ TreeSetState(DeviceStates, MaxTreeCalls)
    \/ TreeSetAttribute(TreeAttributes, TreeValues, MaxTreeCalls)
    \/ TreeSetValue(TreeValues, MaxTreeCalls)
    \/ TreeSetParent(TreeMoves)

SpecTree == InitTree /\ [][NextTree]_vars

\* ------------------------------------------------------------------ claims

\* A pass of the loop (or a call of the publisher) has been made.
PassMade == last # NoPass

\* C1: whenever the connect sequence failed, at the broker connect, at any
\* publish of the INIT walk or at the READY publish, the publisher holds no
\* Property reference (so the next publish reconnects instead of calling
\* set_value).
Claim_C1 == last_connect # NoFailure => Len(property) = 0

\* C2: after every pass in which the flush condition held the buffer is empty,
\* also when Publisher.publish failed for that cycle.
Claim_C2 == last.flush_due => Len(buffer) = 0

\* C3: every pass of the running loop evaluates the flush check exactly once
\* after the poll, whatever the poll returned: nothing, a sample, a bad frame,
\* or less than a complete frame.
Claim_C3 == (PassMade /\ last.raised # "OSError") => last.flush_checks = 1

\* C4: no error ends the reader loop.  A pass always comes back to the loop
\* top, whatever it raised, and the loop stops only from the loop top with
\* the stop flag set.
Thm_C4 ==
    [][ /\ (pc = "body" /\ pc' # "body") => pc' = "top"
        /\ (pc # "stopped" /\ pc' = "stopped") => (stop_requested /\ pc = "top") ]_vars

\* C4 witness: a new pass has begun after a pass that raised, with no stop
\* requested.
Witness_C4 ==
    /\ pc = "body"
    /\ ~stop_requested
    /\ last.raised \in {"ConnectionError", "ZeroDivisionError"}

\* C5: the call of Publisher.publish that follows a call in which set_value
\* failed runs the connect sequence again.
Claim_C5 ==
    (last.call.calls = 1 /\ last.call.after = "failed") => last.call.connects = 1

\* C6: a call of Publisher.publish that ran a connect sequence which failed
\* returns without calling set_value, without publishing the value and
\* without raising.
Claim_C6 ==
    (last.call.calls = 1 /\ last.call.connects = 1 /\ last_connect # NoFailure)
        => /\ last.call.set_value = "skipped"
           /\ ~last.call.raised
           /\ Len(last.value_out) = 0

\* C7: starting from an empty buffer, the pass that buffers the 7th sample
\* flushes, with the mean of the 7 values rounded to one decimal; no pass
\* flushes fewer than 7 samples; and the cycle is handed to Publisher.publish
\* once, never again on a later pass.
Claim_C7 ==
    /\ Len(last.checked) >= 7 =>
          /\ last.flush_due
          /\ last.message
                = <<StrTenths(Round1(ValueSum(last.checked), Len(last.checked)))>>
    /\ last.flush_due => Len(last.checked) >= 7
    /\ cycle_calls <= 1

\* A pass whose flush check found between 1 and 6 samples in the buffer.
CheckedFew ==
    /\ pc = "body"
    /\ pc' = "top"
    /\ last'.flush_checks = 1
    /\ Len(last'.checked) > 0
    /\ Len(last'.checked) < 7

\* Seconds from the last sample of the checked buffer to the flush check.
IdleTime == now - last'.checked[Len(last'.checked)].timestamp

\* What a flush check on fewer than 7 samples does when it flushes (hands the
\* rounded average of the buffered samples to the publisher) and when not
\* (publishes nothing and leaves every sample in the buffer).
CheckedFewOutcome ==
    /\ last'.flush_due =>
          last'.message
             = <<StrTenths(Round1(ValueSum(last'.checked), Len(last'.checked)))>>
    /\ ~last'.flush_due =>
          /\ Len(last'.message) = 0
          /\ buffer' = last'.checked
          /\ SubSeq(buffer', 1, Len(buffer)) = buffer

\* C8 as claimed: with fewer than 7 samples buffered the flush check flushes
\* iff now is 4 s or more past the last sample's timestamp.
Claim_C8 == [][ CheckedFew => ((last'.flush_due <=> IdleTime >= 4) /\ CheckedFewOutcome) ]_vars

\* C8 amended: with fewer than 7 samples buffered the flush check flushes iff
\* now is more than 4 s past the last sample's timestamp.
Thm_C8 == [][ CheckedFew => ((last'.flush_due <=> IdleTime > 4) /\ CheckedFewOutcome) ]_vars

\* C8 witness: three samples were flushed by the idle timeout.
Witness_C8 == last.flush_due /\ Len(last.checked) = 3

\* C9: every value in the cycle buffer is in [0, 1000]; a decoded reading
\* outside the range is dropped without an error and leaves the buffer as it
\* was, one inside it (0 and 1000 included) is appended with the time of the
\* pass.
Thm_C9 ==
    /\ [](\A i \in 1 .. Len(buffer) : buffer[i].pm2_5 >= 0 /\ buffer[i].pm2_5 <= 1000)
    /\ [][ (pc = "body" /\ pc' = "top" /\ last'.decoded.err = "none") =>
              /\ last'.flush_checks = 1
              /\ last'.checked
                    = IF last'.decoded.value >= 0 /\ last'.decoded.value <= 1000
                      THEN Append(buffer, [timestamp |-> now,
                                           pm2_5 |-> last'.decoded.value])
                      ELSE buffer ]_vars

\* C9 witness: the buffer holds a 0 and a 1000 and a reading of 1001 was just
\* dropped.
Witness_C9 ==
    /\ \E i \in 1 .. Len(buffer) : buffer[i].pm2_5 = 0
    /\ \E i \in 1 .. Len(buffer) : buffer[i].pm2_5 = 1000
    /\ last.decoded = [err |-> "none", value |-> 1001]
    /\ last.raised = "none"

\* The sum of byte[5] * 256 + byte[6] over the first n frames of data.
RECURSIVE SumOfReadings(_, _)
SumOfReadings(data, n) ==
    IF n = 0
    THEN 0
    ELSE SumOfReadings(data, n - 1) + data[20 * (n - 1) + 6] * 256 + data[20 * (n - 1) + 7]

\* C10: for a buffer of n >= 1 complete valid frames, n = floor(length / 20),
\* the decoder returns floor(sum of byte[5] * 256 + byte[6] / n), whatever
\* bytes follow the last complete frame.
Thm_C10 ==
    LET n == Len(rx) \div 20
    IN  ( /\ last.decoded.err # "skipped"
          /\ n >= 1
          /\ \A i \in 0 .. n - 1 : rx[20 * i + 1] = 22 /\ rx[20 * i + 2] = 17 )
        => last.decoded = [err |-> "none", value |-> SumOfReadings(rx, n) \div n]

\* C10 witness: two frames reading 25 and 36 followed by 7 bytes decoded to 30.
Witness_C10 ==
    /\ Len(rx) = 47
    /\ SumOfReadings(rx, 2) = 61
    /\ last.decoded = [err |-> "none", value |-> 30]

\* A complete frame of rx has the wrong type or the wrong length octet.
BadFrameIn(data) ==
    \E i \in 0 .. (Len(data) \div 20) - 1 :
        data[20 * i + 1] # 22 \/ data[20 * i + 2] # 17

\* C11: decoding a buffer in which any complete frame has byte[0] # 0x16 or
\* byte[1] # 17 fails as a whole with the frame error (ValueError), whatever
\* the other frames are; decoding a buffer with no complete frame fails with
\* another error (ZeroDivisionError) and returns no value; in both cases no
\* sample is buffered.
Thm_C11 ==
    last.decoded.err # "skipped" =>
        /\ BadFrameIn(rx) => (last.decoded.err = "ValueError" /\ Len(buffer) = 0)
        /\ Len(rx) \div 20 = 0 =>
              /\ last.decoded.err \notin {"none", "ValueError"}
              /\ last.raised = last.decoded.err
              /\ Len(buffer) = 0

\* C11 witness: a valid frame followed by a frame of the wrong type was
\* refused as a whole.
Witness_C11 ==
    /\ Len(rx) = 40
    /\ rx[1] = 22 /\ rx[2] = 17
    /\ rx[21] # 22
    /\ last.decoded.err = "ValueError"
    /\ Len(buffer) = 0

\* C12: an assignment of a state other than INIT to the device that does not
\* fail publishes exactly one message, $state with the payload "ready"
\* whatever state was assigned, and the device then holds the assigned state.
Thm_C12 ==
    ( /\ Len(last.message) = 2
      /\ last.message[1] = "state"
      /\ last.message[2] # "init"
      /\ last.raised = "none" )
    => /\ last.value_out = << [topic |-> "homie/dev/$state", payload |-> "ready"] >>
       /\ device_state = << last.message[2] >>

\* C12 witness: SLEEPING was assigned; "ready" went out and the device holds
\* "sleeping".
Witness_C12 ==
    /\ last.message = <<"state", "sleeping">>
    /\ Len(last.value_out) = 1
    /\ last.value_out[1].payload = "ready"
    /\ device_state = <<"sleeping">>

\* The announcement of the tree in the declared order: the thing, the
\* attribute and the payload of each message.
DeclaredWalk ==
    << <<"dev", "$state", "init">>,
       <<"dev", "$homie", "3.0.0">>,
       <<"dev", "$name", "Dev">>,
       <<"dev", "$nodes", "node,node2">>,
       <<"dev", "$extensions", "">>,
       <<"node", "$name", "Node">>,
       <<"node", "$type", "Sensor">>,
       <<"node", "$properties", "prop,prop2">>,
       <<"prop", "$name", "Prop">>,
       <<"prop", "$datatype", "float">>,
       <<"prop", "$unit", "ug/m3">>,
       <<"prop", "$retained", "true">>,
       <<"prop", "$settable", "false">>,
       <<"prop2", "$name", "Prop 2">>,
       <<"prop2", "$datatype", "integer">>,
       <<"prop2", "$unit", "%">>,
       <<"prop2", "$retained", "true">>,
       <<"prop2", "$settable", "false">>,
       <<"node2", "$name", "Node 2">>,
       <<"node2", "$type", "Actuator">>,
       <<"node2", "$properties", "prop3">>,
       <<"prop3", "$name", "Prop 3">>,
       <<"prop3", "$datatype", "boolean">>,
       <<"prop3", "$unit", "">>,
       <<"prop3", "$retained", "true">>,
       <<"prop3", "$settable", "false">> >>

\* The messages of the declared walk, each on the topic its thing holds.
DeclaredMessages ==
    [i \in 1 .. Len(DeclaredWalk) |->
        [topic |-> things[DeclaredWalk[i][1]].topic_name \o "/" \o DeclaredWalk[i][2],
         payload |-> DeclaredWalk[i][3]]]

\* C13: an assignment of INIT to the device publishes the declared walk, each
\* attribute once and in the declared order (all of it when nothing fails, the
\* part before the failing publish otherwise), and the device holds INIT only
\* when the whole walk went out; a walk that failed leaves the state as it was.
Thm_C13 ==
    [][ (tree_calls' # tree_calls /\ last'.message = <<"state", "init">>) =>
           /\ wire' = wire \o last'.value_out
           /\ last'.raised = "none" =>
                 /\ last'.value_out = DeclaredMessages
                 /\ device_state' = <<"init">>
           /\ last'.raised # "none" =>
                 /\ Len(last'.value_out) < Len(DeclaredMessages)
                 /\ last'.value_out = SubSeq(DeclaredMessages, 1, Len(last'.value_out))
                 /\ device_state' = device_state ]_vars

\* C13 witness: INIT was assigned, the 26 messages of the walk went out and
\* the device holds "init".
Witness_C13 ==
    /\ last.message = <<"state", "init">>
    /\ last.raised = "none"
    /\ Len(last.value_out) = 26
    /\ last.value_out[26].payload = "false"
    /\ device_state = <<"init">>

\* The topics of the convention for one device with one node with one
\* property, the device's attributes being published under device_topic.
ConventionTopics(device_topic, node_id, property_id) ==
    LET node_topic == device_topic \o "/" \o node_id
        property_topic == node_topic \o "/" \o property_id
    IN  { device_topic \o "/$homie", device_topic \o "/$name", device_topic \o "/$state",
          device_topic \o "/$nodes", device_topic \o "/$extensions",
          node_topic \o "/$name", node_topic \o "/$type", node_topic \o "/$properties",
          property_topic \o "/$name", property_topic \o "/$datatype",
          property_topic \o "/$unit", property_topic \o "/$retained",
          property_topic \o "/$settable",
          property_topic }

\* The topics of the messages the publisher has sent: over the connection
\* last built, and in the last call.
PublishedTopics ==
    { wire[i].topic : i \in 1 .. Len(wire) }
    \cup { last.value_out[i].topic : i \in 1 .. Len(last.value_out) }

\* C14 as claimed: every message goes to a convention topic whose first path
\* segment is the device id.
Claim_C14 == PublishedTopics \subseteq ConventionTopics("vindwifing", "pm1006", "pm2_5")

\* C14 amended: every message goes to a convention topic under the root
\* "homie": the first path segment is the id of the root, the second the
\* device id.
Thm_C14 ==
    PublishedTopics \subseteq ConventionTopics("homie/vindwifing", "pm1006", "pm2_5")

\* C14 witness: the whole announcement and a live value have been published.
Witness_C14 ==
    /\ Len(wire) = 14
    /\ Len(last.value_out) = 1
    /\ Cardinality(PublishedTopics) = 14

\* The ids from the root down to the thing, joined by slashes, following the
\* parents the things hold.
RECURSIVE PathFromRoot(_, _)
PathFromRoot(t, id) ==
    IF Len(t[id].parent) = 0
    THEN id
    ELSE PathFromRoot(t, t[id].parent[1]) \o "/" \o id

\* C15: at every point after construction every thing of the tree (root,
\* device, node, property) holds as its topic the slash-joined ids from the
\* root down to itself; set_attribute publishes to that path + "/" + name and
\* set_value to exactly that path.
Claim_C15 ==
    /\ \A id \in TreeIds : things[id].topic_name = PathFromRoot(things, id)
    /\ (Len(last.message) = 4 /\ last.message[1] = "set_attribute") =>
          last.value_out
             = << [topic |-> PathFromRoot(things, last.message[2]) \o "/" \o last.message[3],
                   payload |-> last.message[4]] >>
    /\ (Len(last.message) = 3 /\ last.message[1] = "set_value") =>
          last.value_out
             = << [topic |-> PathFromRoot(things, last.message[2]),
                   payload |-> last.message[3]] >>

\* C16: a stop request changes nothing but the stop flag and the UART, and
\* in particular does not end or abort the pass in progress, which runs to
\* its end and comes back to the loop top; the loop-top test that follows
\* the request leaves the loop; once the loop is left nothing is polled,
\* checked or published any more; and every stop request is followed by the
\* loop being left.
Thm_C16 ==
    /\ [][ /\ (~stop_requested /\ stop_requested') =>
                UNCHANGED << buffer, pc, now, property, device_state, wire,
                             last_connect, last_set_value, cycle_calls, rx, last >>
           /\ (pc = "body" /\ pc' # pc) => pc' = "top"
           /\ (stop_requested /\ pc = "top" /\ pc' # pc) =>
                /\ pc' = "stopped"
                /\ UNCHANGED << buffer, wire, last, rx >>
           /\ pc # "stopped" ]_vars
    /\ (stop_requested ~> pc = "stopped")

\* C16 witness: the loop was left after the pass that was in progress when
\* stop() released the UART had run to its end.
Witness_C16 ==
    /\ pc = "stopped"
    /\ stop_requested
    /\ last.raised = "OSError"

\* C17: while the loop keeps running and the clock advances, a non-empty
\* buffer of a sensor that stalls is eventually flushed and empty again.
Claim_C17 ==
    (Len(buffer) > 0 /\ ~stop_requested) ~> (Len(buffer) = 0 \/ stop_requested)

\* C18: in every reachable state the cycle buffer holds at most 7 samples,
\* and a cycle that was due and was not delivered is dropped, not kept.
Claim_C18 ==
    /\ Len(buffer) <= 7
    /\ (last.flush_due /\ Len(last.value_out) = 0) => Len(buffer) = 0

\* The complete announcement of the sensor's tree followed by $state = ready,
\* as the broker receives it.
AnnouncedAndReady ==
    << [topic |-> "homie/vindwifing/$state", payload |-> "init"],
       [topic |-> "homie/vindwifing/$homie", payload |-> "3.0.0"],
       [topic |-> "homie/vindwifing/$name", payload |-> "VINDWIFING"],
       [topic |-> "homie/vindwifing/$nodes", payload |-> "pm1006"],
       [topic |-> "homie/vindwifing/$extensions", payload |-> ""],
       [topic |-> "homie/vindwifing/pm1006/$name", payload |-> "Cubic PM1006"],
       [topic |-> "homie/vindwifing/pm1006/$type", payload |-> "Air Quality Sensor"],
       [topic |-> "homie/vindwifing/pm1006/$properties", payload |-> "pm2_5"],
       [topic |-> "homie/vindwifing/pm1006/pm2_5/$name",
        payload |-> "Particulate Matter Concentration (PM2.5)"],
       [topic |-> "homie/vindwifing/pm1006/pm2_5/$datatype", payload |-> "float"],
       [topic |-> "homie/vindwifing/pm1006/pm2_5/$unit", payload |-> "ug/m3"],
       [topic |-> "homie/vindwifing/pm1006/pm2_5/$retained", payload |-> "true"],
       [topic |-> "homie/vindwifing/pm1006/pm2_5/$settable", payload |-> "false"],
       [topic |-> "homie/vindwifing/$state", payload |-> "ready"] >>

\* C19: whenever a live value has been published, the connection it went
\* over has carried, before it, the complete announcement of the tree
\* followed by $state = ready.
Claim_C19 == Len(last.value_out) > 0 => wire = AnnouncedAndReady

\* C20: a call of Publisher.publish that found the publisher disconnected
\* and whose connect sequence succeeded goes on, in the same call, to
\* set_value on the tree just announced: the value goes out on the property
\* topic after the complete announcement and $state = ready (or, when the
\* transport fails on that very publish, the call raises ConnectionError).
Thm_C20 ==
    (last.call.calls = 1 /\ last.call.connects = 1 /\ last_connect = NoFailure) =>
        /\ wire = AnnouncedAndReady
        /\ last.call.set_value \in {"ok", "failed"}
        /\ last.call.set_value = "ok" =>
              /\ last.value_out = << [topic |-> "homie/vindwifing/pm1006/pm2_5",
                                      payload |-> last.message[1]] >>
              /\ last.raised = "none"
        /\ last.call.set_value = "failed" =>
              /\ Len(last.value_out) = 0
              /\ last.raised = "ConnectionError"

\* C20 witness: a call reconnected, announced the tree and published 142.9.
Witness_C20 ==
    /\ last.call.connects = 1
    /\ last_connect = NoFailure
    /\ Len(wire) = 14
    /\ last.value_out = << [topic |-> "homie/vindwifing/pm1006/pm2_5",
                            payload |-> "142.9"] >>

====
